---- MODULE Spec2Model ----
(***************************************************************************)
(* The TicTacToe game server: the bit-packed Board of server.py, the       *)
(* Player and Game tables of database.py, and the operations of the        *)
(* Server class (register_player, create_game, highscore_list, game_state, *)
(* make_turn).                                                             *)
(***************************************************************************)
EXTENDS Integers, Sequences, FiniteSets, TLC

VARIABLES
    players,   \* the players table: row i is the player with id i
    games,     \* the games table: row i is the game with id i
    reqs,      \* the requests in flight between their read and their write
    board_b    \* the value _b of a Board object used on its own

vars == <<players, games, reqs, board_b>>

(***************************************************************************)
(* Bounds and input sets                                                   *)
(***************************************************************************)
MaxGames == 1

NumThreads == 2

Names == {"carl", "tom"}

Hashes == {"h1", "h2"}

\* what each name registers with; the other hash is then a wrong password
Credentials == {<<"carl", "h1">>, <<"tom", "h2">>}

GoodPos == 0 .. 8

BogusPos == {-1, 9}

Positions == GoodPos \cup BogusPos

\* a few cells, for the specifications whose requests branch more
FewPos == 0 .. 3

\* one id more than can be stored: a game that does not exist
GameIds == 1 .. (MaxGames + 1)

Threads == 1 .. NumThreads

\* the lengths asked of the highscore list: none, fewer than, all and more than stored
MaxEntries == 3

Entries == 0 .. MaxEntries

\* a third player, two games and two cells: who may see and change which game
MaxLobbyGames == 2

LobbyNames == Names \cup {"eve"}

LobbyHashes == Hashes \cup {"h3"}

LobbyCredentials == Credentials \cup {<<"eve", "h3">>}

LobbyPos == {0, 4}

LobbyGameIds == 1 .. (MaxLobbyGames + 1)

\* the cells of one line and two more: a match that can be won
SessionPos == 0 .. 4

(***************************************************************************)
(* Integer bit operations, as Python computes them on non-negative ints    *)
(***************************************************************************)
Pow2(n) == 2 ^ n

Shr(m, n) == m \div Pow2(n)

Shl(m, n) == m * Pow2(n)

Bit(m, i) == Shr(m, i) % 2

RECURSIVE BitAnd(_, _)
BitAnd(x, y) ==
    IF x = 0 \/ y = 0 THEN 0
    ELSE (IF x % 2 = 1 /\ y % 2 = 1 THEN 1 ELSE 0) + 2 * BitAnd(x \div 2, y \div 2)

RECURSIVE BitOr(_, _)
BitOr(x, y) ==
    IF x = 0 THEN y
    ELSE IF y = 0 THEN x
    ELSE (IF x % 2 = 1 \/ y % 2 = 1 THEN 1 ELSE 0) + 2 * BitOr(x \div 2, y \div 2)

RECURSIVE PopCount(_)
PopCount(x) == IF x = 0 THEN 0 ELSE (x % 2) + PopCount(x \div 2)

(***************************************************************************)
(* class Board                                                             *)
(***************************************************************************)
b1(b) == b % 512

\* b2 shifting by one bit too few
b2_short_shift(b) == Shr(b, 8) % 512

b2(b) == Shr(b, 9) % 512

\* Board.__init__ raises ValueError unless this holds
BoardValid(marks) == BitAnd(b1(marks), b2(marks)) = 0

\* Board.__init__: the object with _b = marks, or the ValueError
Board_init(marks) ==
    IF BoardValid(marks) THEN [ok |-> TRUE, why |-> "", b |-> marks]
    ELSE [ok |-> FALSE, why |-> "fields set more than once", b |-> marks]

\* the patterns with the diagonal 2 4 6 left out
WIN_PATTERNS_one_diagonal == {7, 56, 448, 73, 146, 292, 273}

WIN_PATTERNS == {7, 56, 448, 73, 146, 292, 273, 84}

PlayerMarks(b, player_num) == IF player_num = 1 THEN b1(b) ELSE b2(b)

is_player_win(b, player_num) ==
    \E pattern \in WIN_PATTERNS :
        BitAnd(PlayerMarks(b, player_num), pattern) = pattern

is_win(b) == is_player_win(b, 1) \/ is_player_win(b, 2)

RECURSIVE CountBits(_, _)
CountBits(b, shift) ==
    IF shift = 18 THEN 0 ELSE Bit(b, shift) + CountBits(b, shift + 1)

\* is_full counting the bits of player one's part alone
is_full_first_player(b) == CountBits(b1(b), 0) = 9

is_full(b) == CountBits(b, 0) = 9

\* is_finished with the win forgotten: only a full board ends the game
is_finished_full_only(b) == is_full(b)

\* is_finished with the full board forgotten: only a win ends the game
is_finished_win_only(b) == is_win(b)

is_finished(b) == is_full(b) \/ is_win(b)

\* pos >= 0 here: a negative shift count raises ValueError before this value is used
is_set_player(b, pos, player_num) == Bit(PlayerMarks(b, player_num), pos) = 1

\* is_set looking at player one's marks alone
is_set_first_player_only(b, pos) == is_set_player(b, pos, 1)

is_set(b, pos) == is_set_player(b, pos, 1) \/ is_set_player(b, pos, 2)

\* set_field putting both parts back at the acting player's shift
set_field_one_shift(b, pos, player_num) ==
    LET marks       == PlayerMarks(b, player_num)
        other_marks == PlayerMarks(b, 3 - player_num)
        shift       == IF player_num = 1 THEN 0 ELSE 9
    IN  IF pos < 0 THEN [ok |-> FALSE, why |-> "negative shift count", b |-> b]
        ELSE IF is_set(b, pos)
        THEN [ok |-> FALSE, why |-> "field has already been set", b |-> b]
        ELSE [ok |-> TRUE, why |-> "",
              b |-> BitOr(Shl(BitOr(marks, Shl(1, pos)), shift),
                          Shl(other_marks, shift))]

\* Board.set_field: the new value of _b, or the ValueError it raises
set_field(b, pos, player_num) ==
    LET marks       == PlayerMarks(b, player_num)
        other_marks == PlayerMarks(b, 3 - player_num)
        shift       == IF player_num = 1 THEN 0 ELSE 9
        other_shift == IF player_num = 1 THEN 9 ELSE 0
    IN  IF pos < 0 THEN [ok |-> FALSE, why |-> "negative shift count", b |-> b]
        ELSE IF is_set(b, pos)
        THEN [ok |-> FALSE, why |-> "field has already been set", b |-> b]
        ELSE [ok |-> TRUE, why |-> "",
              b |-> BitOr(Shl(BitOr(marks, Shl(1, pos)), shift),
                          Shl(other_marks, other_shift))]

\* free_fields looking at player one's marks alone
free_fields_first_player(b) ==
    LET both == b1(b)
        F[i \in 0 .. 9] ==
            IF i = 9 THEN <<>>
            ELSE IF Bit(both, i) = 1 THEN F[i + 1] ELSE <<i>> \o F[i + 1]
    IN  F[0]

free_fields(b) ==
    LET both == BitOr(b1(b), b2(b))
        F[i \in 0 .. 9] ==
            IF i = 9 THEN <<>>
            ELSE IF Bit(both, i) = 1 THEN F[i + 1] ELSE <<i>> \o F[i + 1]
    IN  F[0]

(***************************************************************************)
(* class SQLiteDatabase                                                    *)
(***************************************************************************)
\* player_by_name: the id of the first row with this name, 0 for None
player_by_name(name) ==
    IF \E i \in 1 .. Len(players) : players[i].name = name
    THEN CHOOSE i \in 1 .. Len(players) :
            /\ players[i].name = name
            /\ \A j \in 1 .. (i - 1) : players[j].name # name
    ELSE 0

\* game_by_id: TRUE when the query finds a row
game_exists(game_id) == game_id \in 1 .. Len(games)

db_register_player(name, pw_hash) ==
    Append(players, [name |-> name, score |-> 0, hash |-> pw_hash])

\* add_game giving the first turn to the second player
add_game_turn_second(player_1_name, player_2_name) ==
    LET p1_id == player_by_name(player_1_name)
        p2_id == player_by_name(player_2_name)
    IN  Append(games, [player_1 |-> p1_id, player_2 |-> p2_id,
                       turn |-> p2_id, board |-> 0])

add_game(player_1_name, player_2_name) ==
    LET p1_id == player_by_name(player_1_name)
        p2_id == player_by_name(player_2_name)
    IN  Append(games, [player_1 |-> p1_id, player_2 |-> p2_id,
                       turn |-> p1_id, board |-> 0])

\* ORDER BY score with the smallest first
RECURSIVE order_by_score_ascending(_)
order_by_score_ascending(ids) ==
    IF ids = {} THEN {<<>>}
    ELSE UNION {{<<i>> \o rest : rest \in order_by_score_ascending(ids \ {i})} :
                i \in {j \in ids : \A k \in ids : players[j].score <= players[k].score}}

\* ORDER BY score DESC: the orders of the rows the query may give, rows of equal
\* score in any order
RECURSIVE order_by_score(_)
order_by_score(ids) ==
    IF ids = {} THEN {<<>>}
    ELSE UNION {{<<i>> \o rest : rest \in order_by_score(ids \ {i})} :
                i \in {j \in ids : \A k \in ids : players[k].score <= players[j].score}}

\* LIMIT n: the first n rows, every row for a negative n
limit(rows, n) ==
    IF n < 0 \/ n >= Len(rows) THEN rows ELSE SubSeq(rows, 1, n)

\* highscore: the ids of the rows it may yield
highscore(max_entries) ==
    {limit(rows, max_entries) : rows \in order_by_score(1 .. Len(players))}

(***************************************************************************)
(* class Server: each operation as a function of the stored state and its  *)
(* arguments, giving the response and the state it leaves                  *)
(***************************************************************************)
Error(why) == [status |-> "error", why |-> why, players |-> players, games |-> games]

\* an exception that no handler catches
Raise(why) == [status |-> "raise", why |-> why, players |-> players, games |-> games]

Ok(ps, gs) == [status |-> "ok", why |-> "", players |-> ps, games |-> gs]

\* register_player writing the new hash over the row of a name that is stored
register_player_upsert(name, pw_hash) ==
    IF player_by_name(name) # 0
    THEN Ok([players EXCEPT ![player_by_name(name)].hash = pw_hash], games)
    ELSE Ok(db_register_player(name, pw_hash), games)

register_player_result(name, pw_hash) ==
    IF player_by_name(name) # 0 THEN Error("player already exists")
    ELSE Ok(db_register_player(name, pw_hash), games)

\* add_game, lines 127-128: the id the new row got, ids counting up from 1
add_game_id == Len(games) + 1

\* create_game with no look at whether the two names are one
create_game_allow_self_play(player_1_name, pw_hash, player_2_name) ==
    LET player == player_by_name(player_1_name)
    IN  IF player = 0 THEN Error("player cannot be authenticated")
        ELSE IF players[player].hash # pw_hash THEN Error("player cannot be authenticated")
        ELSE IF player_by_name(player_2_name) = 0 THEN Error("player does not exist")
        ELSE [status |-> "ok", why |-> "", players |-> players,
              games |-> add_game(player_1_name, player_2_name),
              game_id |-> add_game_id]

\* create_game looking at the two names before it authenticates the caller
create_game_self_play_first(player_1_name, pw_hash, player_2_name) ==
    LET player == player_by_name(player_1_name)
    IN  IF player_1_name = player_2_name THEN Error("please play against someone else")
        ELSE IF player = 0 THEN Error("player cannot be authenticated")
        ELSE IF players[player].hash # pw_hash THEN Error("player cannot be authenticated")
        ELSE IF player_by_name(player_2_name) = 0 THEN Error("player does not exist")
        ELSE [status |-> "ok", why |-> "", players |-> players,
              games |-> add_game(player_1_name, player_2_name),
              game_id |-> add_game_id]

create_game_result(player_1_name, pw_hash, player_2_name) ==
    LET player == player_by_name(player_1_name)
    IN  IF player = 0 THEN Error("player cannot be authenticated")
        ELSE IF players[player].hash # pw_hash THEN Error("player cannot be authenticated")
        ELSE IF player_1_name = player_2_name THEN Error("please play against someone else")
        ELSE IF player_by_name(player_2_name) = 0 THEN Error("player does not exist")
        ELSE [status |-> "ok", why |-> "", players |-> players,
              games |-> add_game(player_1_name, player_2_name),
              game_id |-> add_game_id]

\* highscore_list: the responses it may give, one for each order of the query
highscore_list_result(max_entries) ==
    {[status |-> "ok", why |-> "",
      scores |-> [k \in 1 .. Len(ids) |->
                     [name |-> players[ids[k]].name, score |-> players[ids[k]].score]],
      players |-> players, games |-> games] : ids \in highscore(max_entries)}

\* _auth_player_and_game taking the name alone for the caller's identity
auth_player_and_game_no_hash(name, pw_hash, game_id) ==
    LET player == player_by_name(name)
    IN  IF player = 0 THEN Error("player cannot be authenticated")
        ELSE IF ~game_exists(game_id) THEN Raise("AttributeError")
        ELSE IF player \notin {games[game_id].player_1, games[game_id].player_2}
        THEN Error("no such game")
        ELSE Ok(players, games)

\* _auth_player_and_game: status "ok" when it returns, else what it raises
auth_player_and_game(name, pw_hash, game_id) ==
    LET player == player_by_name(name)
    IN  IF player = 0 THEN Error("player cannot be authenticated")
        ELSE IF players[player].hash # pw_hash THEN Error("player cannot be authenticated")
        ELSE IF ~game_exists(game_id) THEN Raise("AttributeError")
        ELSE IF player \notin {games[game_id].player_1, games[game_id].player_2}
        THEN Error("no such game")
        ELSE Ok(players, games)

\* game_state answering with player one's name whoever is on turn
game_state_first_player(name, pw_hash, game_id) ==
    LET auth == auth_player_and_game(name, pw_hash, game_id)
    IN  IF auth.status # "ok"
        THEN [status |-> auth.status, why |-> auth.why, turn |-> "", board |-> 0,
              players |-> players, games |-> games]
        ELSE [status |-> "ok", why |-> "",
              turn |-> players[games[game_id].player_1].name,
              board |-> games[game_id].board,
              players |-> players, games |-> games]

\* game_state: the response, with the turn player's name and the raw board
game_state_result(name, pw_hash, game_id) ==
    LET auth == auth_player_and_game(name, pw_hash, game_id)
    IN  IF auth.status # "ok"
        THEN [status |-> auth.status, why |-> auth.why, turn |-> "", board |-> 0,
              players |-> players, games |-> games]
        ELSE [status |-> "ok", why |-> "",
              turn |-> players[games[game_id].turn].name,
              board |-> games[game_id].board,
              players |-> players, games |-> games]

\* the turn check comparing with player one in place of the stored turn
not_your_turn_first_player(player, game) == player # game.player_1

\* make_turn, line 308
not_your_turn(player, game) == player # game.turn

\* the two player numbers taken for each other
player_num_swapped(player, game) == IF player = game.player_1 THEN 2 ELSE 1

\* make_turn, lines 311-316
player_num_of(player, game) == IF player = game.player_1 THEN 1 ELSE 2

\* the two branches handing the turn back to the caller
next_id_of_caller(player, game) ==
    IF player = game.player_1 THEN game.player_1 ELSE game.player_2

next_id_of(player, game) ==
    IF player = game.player_1 THEN game.player_2 ELSE game.player_1

\* the score raised whenever the move ends the game, a draw included
score_after_any_finish(ps, player, b, player_num) ==
    IF is_finished(b) THEN [ps EXCEPT ![player].score = @ + 1] ELSE ps

\* a win counted twice
score_after_double(ps, player, b, player_num) ==
    IF is_player_win(b, player_num) THEN [ps EXCEPT ![player].score = @ + 2] ELSE ps

\* make_turn, lines 328-329
score_after(ps, player, b, player_num) ==
    IF is_player_win(b, player_num) THEN [ps EXCEPT ![player].score = @ + 1] ELSE ps

\* the mark made with no look at whether the game is finished
try_mark_unfinished_or_not(board, pos, player_num) ==
    IF ~BoardValid(board) THEN [status |-> "raise", why |-> "ValueError", b |-> board]
    ELSE LET set == set_field(board, pos, player_num)
         IN  IF set.ok THEN [status |-> "ok", why |-> "", b |-> set.b]
             ELSE [status |-> "error", why |-> set.why, b |-> board]

\* make_turn, lines 318-324: the checks on the board and the mark, on a local Board
try_mark(board, pos, player_num) ==
    IF ~BoardValid(board) THEN [status |-> "raise", why |-> "ValueError", b |-> board]
    ELSE IF is_finished(board) THEN [status |-> "error", why |-> "game finished", b |-> board]
    ELSE LET set == set_field(board, pos, player_num)
         IN  IF set.ok THEN [status |-> "ok", why |-> "", b |-> set.b]
             ELSE [status |-> "error", why |-> set.why, b |-> board]

\* the board and the turn written to every game of the same two players
write_turn_same_players(game_id, player, player_num, next_id, b) ==
    Ok(score_after(players, player, b, player_num),
       [g \in DOMAIN games |->
           IF {games[g].player_1, games[g].player_2} =
              {games[game_id].player_1, games[game_id].player_2}
           THEN [games[g] EXCEPT !.board = b, !.turn = next_id]
           ELSE games[g]])

\* make_turn, lines 325-330: the writes and the commit
write_turn(game_id, player, player_num, next_id, b) ==
    Ok(score_after(players, player, b, player_num),
       [games EXCEPT ![game_id].board = b, ![game_id].turn = next_id])

make_turn_result(name, pw_hash, pos, game_id) ==
    LET auth == auth_player_and_game(name, pw_hash, game_id)
    IN  IF auth.status # "ok" THEN auth
        ELSE
        LET player     == player_by_name(name)
            game       == games[game_id]
            player_num == player_num_of(player, game)
            mark       == try_mark(game.board, pos, player_num)
        IN  IF not_your_turn(player, game) THEN Error("not your turn")
            ELSE IF mark.status = "raise" THEN Raise(mark.why)
            ELSE IF mark.status = "error" THEN Error(mark.why)
            ELSE write_turn(game_id, player, player_num, next_id_of(player, game), mark.b)

(***************************************************************************)
(* The operations as actions, one request at a time                        *)
(***************************************************************************)
Apply(r) ==
    /\ players' = r.players
    /\ games' = r.games
    /\ UNCHANGED <<reqs, board_b>>

register_player(name, pw_hash) ==
    LET r == register_player_result(name, pw_hash) IN Apply(r)

create_game(player_1_name, pw_hash, player_2_name) ==
    LET r == create_game_result(player_1_name, pw_hash, player_2_name) IN Apply(r)

highscore_list(max_entries) ==
    \E r \in highscore_list_result(max_entries) : Apply(r)

game_state(name, pw_hash, game_id) ==
    LET r == game_state_result(name, pw_hash, game_id) IN Apply(r)

make_turn(name, pw_hash, pos, game_id) ==
    LET r == make_turn_result(name, pw_hash, pos, game_id) IN Apply(r)

Init ==
    /\ players = <<>>
    /\ games = <<>>
    /\ reqs = {}
    /\ board_b = 0

Requests(positions) ==
    \/ \E c \in Credentials : register_player(c[1], c[2])
    \/ \E n1 \in Names, h \in Hashes, n2 \in Names :
          Len(games) < MaxGames /\ create_game(n1, h, n2)
    \/ \E max_entries \in Entries : highscore_list(max_entries)
    \/ \E n \in Names, h \in Hashes, g \in GameIds : game_state(n, h, g)
    \/ \E n \in Names, h \in Hashes, pos \in positions, g \in GameIds :
          make_turn(n, h, pos, g)

\* the positions the request layer lets through
Next == Requests(GoodPos)

Spec == Init /\ [][Next]_vars

\* the Server called directly, with positions the request layer would refuse
NextAnyPos == Requests(FewPos \cup BogusPos)

SpecAnyPos == Init /\ [][NextAnyPos]_vars

\* three players and two games, one request at a time
NextLobby ==
    \/ \E c \in LobbyCredentials : register_player(c[1], c[2])
    \/ \E n1 \in LobbyNames, h \in LobbyHashes, n2 \in LobbyNames :
          Len(games) < MaxLobbyGames /\ create_game(n1, h, n2)
    \/ \E n \in LobbyNames, h \in LobbyHashes, g \in LobbyGameIds : game_state(n, h, g)
    \/ \E n \in LobbyNames, h \in LobbyHashes, pos \in LobbyPos, g \in LobbyGameIds :
          make_turn(n, h, pos, g)

SpecLobby == Init /\ [][NextLobby]_vars

(***************************************************************************)
(* Requests that run interleaved: a request reads and checks in one step   *)
(* and writes in a later one, as the handlers do with no lock and no       *)
(* transaction around the two                                              *)
(***************************************************************************)
Busy(t) == \E r \in reqs : r.thread = t

\* register_player, line 233: the lookup
register_begin(t, name, pw_hash) ==
    /\ ~Busy(t)
    /\ player_by_name(name) = 0
    /\ reqs' = reqs \cup {[thread |-> t, pc |-> "insert", name |-> name,
                           pw_hash |-> pw_hash, game_id |-> 0, player |-> 0,
                           player_num |-> 0, next_id |-> 0, board |-> 0,
                           seen_board |-> 0]}
    /\ UNCHANGED <<players, games, board_b>>

\* register_player, line 235: the insert and its commit
register_commit(r) ==
    /\ r.pc = "insert"
    /\ players' = db_register_player(r.name, r.pw_hash)
    /\ reqs' = reqs \ {r}
    /\ UNCHANGED <<games, board_b>>

\* make_turn, lines 305-324: fetch the rows, check them, mark a local Board
make_turn_begin(t, name, pw_hash, pos, game_id) ==
    /\ ~Busy(t)
    /\ auth_player_and_game(name, pw_hash, game_id).status = "ok"
    /\ LET player     == player_by_name(name)
           game       == games[game_id]
           player_num == player_num_of(player, game)
           mark       == try_mark(game.board, pos, player_num)
       IN  /\ ~not_your_turn(player, game)
           /\ mark.status = "ok"
           /\ reqs' = reqs \cup {[thread |-> t, pc |-> "write", name |-> name,
                                  pw_hash |-> pw_hash, game_id |-> game_id,
                                  player |-> player, player_num |-> player_num,
                                  next_id |-> next_id_of(player, game),
                                  board |-> mark.b, seen_board |-> game.board]}
    /\ UNCHANGED <<players, games, board_b>>

\* make_turn, lines 325-331: write the row, the score, commit, answer ok
make_turn_commit(r) ==
    /\ r.pc = "write"
    /\ LET w == write_turn(r.game_id, r.player, r.player_num, r.next_id, r.board)
       IN  /\ players' = w.players
           /\ games' = w.games
    /\ reqs' = reqs \ {r}
    /\ UNCHANGED board_b

NextConc ==
    \/ \E t \in Threads, c \in Credentials : register_begin(t, c[1], c[2])
    \/ \E r \in reqs : register_commit(r)
    \/ \E n1 \in Names, h \in Hashes, n2 \in Names :
          Len(games) < MaxGames /\ create_game(n1, h, n2)
    \/ \E t \in Threads, n \in Names, h \in Hashes, pos \in FewPos, g \in GameIds :
          make_turn_begin(t, n, h, pos, g)
    \/ \E r \in reqs : make_turn_commit(r)

SpecConc == Init /\ [][NextConc]_vars

(***************************************************************************)
(* The one session all requests share: make_turn assigns the row's board   *)
(* and turn on the session's Game object, and whichever request commits    *)
(* next commits every row the session holds modified                       *)
(***************************************************************************)
\* make_turn, lines 325-326: the row is modified in the session, nothing is committed
make_turn_dirty(r) ==
    /\ r.pc = "write"
    /\ reqs' = (reqs \ {r}) \cup {[r EXCEPT !.pc = "dirty"]}
    /\ UNCHANGED <<players, games, board_b>>

\* commit: the rows gs with the session's modified rows written to them
session_flush(gs) ==
    [g \in DOMAIN gs |->
        IF \E r \in reqs : r.pc = "dirty" /\ r.game_id = g
        THEN LET r == CHOOSE q \in reqs : q.pc = "dirty" /\ q.game_id = g
             IN  [gs[g] EXCEPT !.board = r.board, !.turn = r.next_id]
        ELSE gs[g]]

\* a request that reaches its commit while another request's row is modified
ApplySession(r) ==
    /\ players' = r.players
    /\ games' = IF r.status = "ok" THEN session_flush(r.games) ELSE r.games
    /\ UNCHANGED <<reqs, board_b>>

register_player_session(name, pw_hash) ==
    LET r == register_player_result(name, pw_hash) IN ApplySession(r)

create_game_session(player_1_name, pw_hash, player_2_name) ==
    LET r == create_game_result(player_1_name, pw_hash, player_2_name) IN ApplySession(r)

\* make_turn, lines 328-331: the score, the commit, the answer
make_turn_finish(r) ==
    /\ r.pc = "dirty"
    /\ LET w == write_turn(r.game_id, r.player, r.player_num, r.next_id, r.board)
       IN  /\ players' = w.players
           /\ games' = w.games
    /\ reqs' = reqs \ {r}
    /\ UNCHANGED board_b

NextSession ==
    \/ \E c \in LobbyCredentials : register_player_session(c[1], c[2])
    \/ \E n1 \in LobbyNames, h \in LobbyHashes, n2 \in LobbyNames :
          Len(games) < MaxGames /\ create_game_session(n1, h, n2)
    \/ \E n \in LobbyNames, h \in LobbyHashes, pos \in SessionPos, g \in GameIds :
          reqs = {} /\ make_turn_begin(1, n, h, pos, g)
    \/ \E r \in reqs : make_turn_dirty(r)
    \/ \E r \in reqs : make_turn_finish(r)

SpecSession == Init /\ [][NextSession]_vars

(***************************************************************************)
(* A Board on its own: constructed from any 18-bit integer, then marked    *)
(***************************************************************************)
BoardBits == 18

BoardValues == 0 .. (2 ^ BoardBits - 1)

PlayerNums == {1, 2}

InitBoard ==
    /\ players = <<>>
    /\ games = <<>>
    /\ reqs = {}
    /\ board_b \in BoardValues

\* set_field on the Board that Board(board_b) gave; no Board if __init__ raised
Board_set_field(pos, player_num) ==
    /\ Board_init(board_b).ok
    /\ board_b' = set_field(board_b, pos, player_num).b
    /\ UNCHANGED <<players, games, reqs>>

NextBoard == \E pos \in GoodPos, player_num \in PlayerNums : Board_set_field(pos, player_num)

SpecBoard == InitBoard /\ [][NextBoard]_vars

(***************************************************************************)
(* What the claims speak of, stated on the stored rows alone               *)
(***************************************************************************)
WinLines == {{0, 1, 2}, {3, 4, 5}, {6, 7, 8}, {0, 3, 6}, {1, 4, 7}, {2, 5, 8},
             {0, 4, 8}, {2, 4, 6}}

\* the cells player_num has marked on board b
CellsOf(b, player_num) == {c \in 0 .. 8 : Bit(b, c + 9 * (player_num - 1)) = 1}

HasLine(b, player_num) == \E line \in WinLines : line \subseteq CellsOf(b, player_num)

PlanesDisjoint(b) == CellsOf(b, 1) \cap CellsOf(b, 2) = {}

\* a finished configuration: a Board that is full or holds a winning pattern
BoardFinished(b) ==
    /\ PlanesDisjoint(b)
    /\ \/ HasLine(b, 1)
       \/ HasLine(b, 2)
       \/ Cardinality(CellsOf(b, 1)) + Cardinality(CellsOf(b, 2)) = 9

StoredGames == 1 .. Len(games)

Authenticated(n, h) == \E i \in 1 .. Len(players) : players[i].name = n /\ players[i].hash = h

IdOf(n) == CHOOSE i \in 1 .. Len(players) : players[i].name = n

\* n, presenting h, is an authenticated participant of the stored game g
Participant(n, h, g) ==
    /\ Authenticated(n, h)
    /\ IdOf(n) \in {games[g].player_1, games[g].player_2}

OnTurn(n, g) == IdOf(n) = games[g].turn

NumOf(n, g) == IF IdOf(n) = games[g].player_1 THEN 1 ELSE 2

OtherOf(n, g) ==
    IF IdOf(n) = games[g].player_1 THEN games[g].player_2 ELSE games[g].player_1

CellFree(b, pos) == Bit(b, pos) = 0 /\ Bit(b, pos + 9) = 0

\* the response is an error with this reason and nothing stored has changed
Rejected(r, why) ==
    /\ r.status = "error"
    /\ r.why = why
    /\ r.games = games
    /\ r.players = players

\* the case of an accepted move: the turn player, an unfinished match, a free cell
Acceptable(n, h, pos, g) ==
    /\ Participant(n, h, g)
    /\ OnTurn(n, g)
    /\ PlanesDisjoint(games[g].board)
    /\ ~BoardFinished(games[g].board)
    /\ pos \in GoodPos
    /\ CellFree(games[g].board, pos)

(***************************************************************************)
(* C1: for every stored match and every authenticated participant who is   *)
(* not its turn player, make_turn answers the error "not your turn" and    *)
(* leaves the match's board, its turn and every score unchanged.           *)
(***************************************************************************)
C1_NotYourTurn ==
    \A g \in StoredGames, n \in Names, h \in Hashes, pos \in Positions :
        (Participant(n, h, g) /\ ~OnTurn(n, g))
            => Rejected(make_turn_result(n, h, pos, g), "not your turn")

\* a match with moves made, and the participant who has just moved asks again
C1_Witness ==
    \E g \in StoredGames, n \in Names, h \in Hashes :
        /\ Participant(n, h, g) /\ ~OnTurn(n, g)
        /\ CellsOf(games[g].board, NumOf(n, g)) # {}
        /\ make_turn_result(n, h, 4, g).why = "not your turn"

(***************************************************************************)
(* C2: finished is absorbing. Once a stored match's board is finished, no  *)
(* step changes that match's row again (an accepted make_turn would change *)
(* its board and its turn), and no step changes a score unless it is a     *)
(* move on another match.                                                  *)
(***************************************************************************)
C2_FinishedAbsorbing ==
    [][\A g \in StoredGames :
          BoardFinished(games[g].board) =>
              /\ g <= Len(games')
              /\ games'[g] = games[g]
              /\ \/ \A i \in 1 .. Len(players) :
                        i <= Len(players') /\ players'[i].score = players[i].score
                 \/ \E g2 \in StoredGames \ {g} : games'[g2] # games[g2]]_vars

\* a match that has been played to its end: won, or full
C2_Witness == \E g \in StoredGames : BoardFinished(games[g].board)

(***************************************************************************)
(* C3 as stated: after a match is finished, a move by either authenticated *)
(* participant fails with the reason "game finished" and changes nothing.  *)
(***************************************************************************)
C3_Original ==
    \A g \in StoredGames, n \in Names, h \in Hashes, pos \in Positions :
        (Participant(n, h, g) /\ BoardFinished(games[g].board))
            => Rejected(make_turn_result(n, h, pos, g), "game finished")

(***************************************************************************)
(* C3 as amended: after a match is finished, a move by an authenticated    *)
(* participant changes nothing and fails: with "game finished" when the    *)
(* caller is the stored turn player, with "not your turn" when the caller  *)
(* is the other participant (the one who made the final move).             *)
(***************************************************************************)
C3_FinishedRejected ==
    \A g \in StoredGames, n \in Names, h \in Hashes, pos \in Positions :
        (Participant(n, h, g) /\ BoardFinished(games[g].board))
            => Rejected(make_turn_result(n, h, pos, g),
                        IF OnTurn(n, g) THEN "game finished" ELSE "not your turn")

\* a full board with no line, and the stored turn player asks for a move
C3_Witness ==
    \E g \in StoredGames, n \in Names, h \in Hashes :
        /\ Participant(n, h, g) /\ OnTurn(n, g)
        /\ BoardFinished(games[g].board)
        /\ ~HasLine(games[g].board, 1) /\ ~HasLine(games[g].board, 2)
        /\ make_turn_result(n, h, 0, g).why = "game finished"

C5_ScoreOnWin ==
    \A g \in StoredGames, n \in Names, h \in Hashes, pos \in GoodPos :
        Acceptable(n, h, pos, g) =>
            LET r   == make_turn_result(n, h, pos, g)
                win == HasLine(r.games[g].board, NumOf(n, g))
            IN  /\ Len(r.players) = Len(players)
                /\ \A i \in 1 .. Len(players) :
                      /\ r.players[i].name = players[i].name
                      /\ r.players[i].hash = players[i].hash
                      /\ r.players[i].score =
                            players[i].score + (IF i = IdOf(n) /\ win THEN 1 ELSE 0)

\* eight cells are marked, no line yet, and the last free cell completes none
C5_Witness ==
    \E g \in StoredGames, n \in Names, h \in Hashes, pos \in GoodPos :
        /\ Acceptable(n, h, pos, g)
        /\ Cardinality(CellsOf(games[g].board, 1) \cup CellsOf(games[g].board, 2)) = 8
        /\ LET r == make_turn_result(n, h, pos, g)
           IN  /\ r.status = "ok"
               /\ ~HasLine(r.games[g].board, NumOf(n, g))
               /\ r.players = players

(***************************************************************************)
(* C6: make_turn by the turn player on an unfinished match at a position   *)
(* already marked by either player answers an error and leaves the board,  *)
(* the turn (the caller stays on turn) and all scores unchanged.           *)
(***************************************************************************)
C6_OccupiedRejected ==
    \A g \in StoredGames, n \in Names, h \in Hashes, pos \in GoodPos :
        ( /\ Participant(n, h, g) /\ OnTurn(n, g)
          /\ PlanesDisjoint(games[g].board)
          /\ ~BoardFinished(games[g].board)
          /\ ~CellFree(games[g].board, pos) )
            => Rejected(make_turn_result(n, h, pos, g), "field has already been set")

\* player two, on turn, asks for the cell player one has just marked
C6_Witness ==
    \E g \in StoredGames, n \in Names, h \in Hashes, pos \in GoodPos :
        /\ Participant(n, h, g) /\ OnTurn(n, g) /\ NumOf(n, g) = 2
        /\ ~BoardFinished(games[g].board)
        /\ pos \in CellsOf(games[g].board, 1)
        /\ make_turn_result(n, h, pos, g).status = "error"

(***************************************************************************)
(* C7: in every reachable state every stored board has (I1) its low 9 bits *)
(* and its next 9 bits disjoint and (I2) at most 9 bits set.               *)
(***************************************************************************)
C7_BoardInvariants ==
    \A g \in StoredGames :
        /\ BitAnd(games[g].board % 512, (games[g].board \div 512) % 512) = 0
        /\ PopCount(games[g].board) <= 9

(***************************************************************************)
(* C8: a move whose position is not in 0..8 (-1 or 9) by an authenticated  *)
(* participant is answered with an error status and leaves the board, the  *)
(* turn and all scores unchanged.                                          *)
(***************************************************************************)
C8_OutOfRangeRejected ==
    \A g \in StoredGames, n \in Names, h \in Hashes, pos \in BogusPos :
        Participant(n, h, g) =>
            LET r == make_turn_result(n, h, pos, g)
            IN  r.status = "error" /\ r.games = games /\ r.players = players

(***************************************************************************)
(* C9: every make_turn that writes (and answers ok) was checked against    *)
(* the board and turn that are stored when it writes, and its write hands  *)
(* the turn to the other participant: no two requests succeed on the same  *)
(* pre-move state, no accepted move is lost.                               *)
(***************************************************************************)
C9_NoLostUpdate ==
    [][\A r \in reqs :
          make_turn_commit(r) =>
              /\ games[r.game_id].board = r.seen_board
              /\ games[r.game_id].turn = r.player
              /\ games'[r.game_id].turn # games[r.game_id].turn]_vars

(***************************************************************************)
(* C10: in every reachable state, under any interleaving of the requests,  *)
(* no two stored players have the same name.                               *)
(***************************************************************************)
C10_NamesUnique ==
    \A i, j \in 1 .. Len(players) : i # j => players[i].name # players[j].name

(***************************************************************************)
(* C11: register_player with a name that is stored answers an error and    *)
(* leaves every stored row as it is (no new player, the stored player's    *)
(* score and hash kept); with a name that is not stored it answers ok and  *)
(* adds exactly one player with that name, the given hash and score 0.     *)
(***************************************************************************)
C11_RegisterPlayer ==
    \A n \in Names, h \in Hashes :
        LET r == register_player_result(n, h)
        IN  IF \E i \in 1 .. Len(players) : players[i].name = n
            THEN r.status = "error" /\ r.players = players /\ r.games = games
            ELSE /\ r.status = "ok"
                 /\ r.players = players \o <<[name |-> n, score |-> 0, hash |-> h]>>
                 /\ r.games = games

\* a player who has won a match is registered again, with another hash
C11_Witness ==
    \E i \in 1 .. Len(players), h \in Hashes :
        /\ players[i].score = 1
        /\ players[i].hash # h
        /\ register_player_result(players[i].name, h).status = "error"

(***************************************************************************)
(* C12: a create_game step that answers ok appends exactly one match, with *)
(* player one and player two the rows of the two names, the turn player    *)
(* one and board 0, changes no other row, and returns the new row's id,    *)
(* which is positive; in the state right after it, game_state by either    *)
(* participant with their own hash answers turn = player one's name and    *)
(* board = 0 for that id.                                                  *)
(***************************************************************************)
C12_CreateGame ==
    [][\A n1 \in LobbyNames, h \in LobbyHashes, n2 \in LobbyNames, id \in LobbyGameIds :
          LET r == create_game_result(n1, h, n2)
          IN  (create_game(n1, h, n2) /\ r.status = "ok" /\ r.game_id = id) =>
                  /\ id > 0
                  /\ id = Len(games) + 1
                  /\ players' = players
                  /\ games' = games \o <<[player_1 |-> IdOf(n1), player_2 |-> IdOf(n2),
                                          turn |-> IdOf(n1), board |-> 0]>>
                  /\ \A n \in {n1, n2}, hn \in LobbyHashes :
                        Authenticated(n, hn) =>
                            LET s == game_state_result(n, hn, id)'
                            IN  s.status = "ok" /\ s.turn = n1 /\ s.board = 0]_vars

\* a second match has been created while the first one has moves on its board
C12_Witness ==
    /\ Len(games) = 2
    /\ games[1].board # 0
    /\ games[2].board = 0

(***************************************************************************)
(* C13: create_game answers ok exactly when player one's name is stored    *)
(* with the presented hash, the two names differ and player two's name is  *)
(* stored; otherwise it answers an error, whose reason is the failed       *)
(* authentication before the self-play, and the self-play before the       *)
(* unknown opponent, and no match is created and no stored row changes.    *)
(***************************************************************************)
C13_CreateGameErrors ==
    \A n1 \in LobbyNames, h \in LobbyHashes, n2 \in LobbyNames :
        LET r       == create_game_result(n1, h, n2)
            stored2 == \E i \in 1 .. Len(players) : players[i].name = n2
        IN  /\ r.status \in {"ok", "error"}
            /\ r.status = "ok" <=> (Authenticated(n1, h) /\ n1 # n2 /\ stored2)
            /\ r.status = "ok" => Len(r.games) = Len(games) + 1
            /\ r.status = "error" =>
                  /\ r.games = games
                  /\ r.players = players
                  /\ r.why = IF ~Authenticated(n1, h) THEN "player cannot be authenticated"
                             ELSE IF n1 = n2 THEN "please play against someone else"
                             ELSE "player does not exist"

\* with a match stored: a wrong hash asking for self-play, and an unknown opponent
C13_Witness ==
    \E n1 \in LobbyNames, h, hw \in LobbyHashes, n2 \in LobbyNames :
        /\ Len(games) = 1
        /\ Authenticated(n1, h) /\ ~Authenticated(n1, hw)
        /\ create_game_result(n1, hw, n1).why = "player cannot be authenticated"
        /\ create_game_result(n1, h, n1).why = "please play against someone else"
        /\ create_game_result(n1, h, n2).why = "player does not exist"

(***************************************************************************)
(* C14: game_state and make_turn answer the authentication error whenever  *)
(* the name is not stored or the presented hash is not the stored one, and *)
(* the error "no such game" when the authenticated player is neither       *)
(* player of the stored match; in these cases nothing stored changes, and  *)
(* a make_turn that changes anything was called with the stored hash of    *)
(* the match's turn player.                                                *)
(***************************************************************************)
C14_AuthAndParticipation ==
    \A n \in LobbyNames, h \in LobbyHashes, g \in LobbyGameIds, pos \in Positions :
        LET m == make_turn_result(n, h, pos, g)
            s == game_state_result(n, h, g)
        IN  /\ ~Authenticated(n, h) =>
                  /\ Rejected(m, "player cannot be authenticated")
                  /\ Rejected(s, "player cannot be authenticated")
            /\ (Authenticated(n, h) /\ g \in StoredGames /\ ~Participant(n, h, g)) =>
                  /\ Rejected(m, "no such game")
                  /\ Rejected(s, "no such game")
            /\ (m.games # games \/ m.players # players) =>
                  /\ g \in StoredGames
                  /\ Authenticated(n, h)
                  /\ IdOf(n) = games[g].turn

\* a match with a move made, a registered third player asks for its state and a move
C14_Witness ==
    \E n \in LobbyNames, h \in LobbyHashes, g \in StoredGames :
        /\ Authenticated(n, h) /\ ~Participant(n, h, g)
        /\ games[g].board # 0
        /\ make_turn_result(n, h, 4, g).why = "no such game"
        /\ game_state_result(n, h, g).why = "no such game"

(***************************************************************************)
(* C15: game_state and make_turn called by an authenticated player with a  *)
(* match id that is not stored answer a tagged error (status "error" with  *)
(* a reason), raise nothing, and leave the stored state unchanged.         *)
(***************************************************************************)
C15_NoRaise ==
    \A n \in Names, h \in Hashes, g \in GameIds \ StoredGames, pos \in GoodPos :
        Authenticated(n, h) =>
            LET m == make_turn_result(n, h, pos, g)
                s == game_state_result(n, h, g)
            IN  /\ m.status = "error" /\ m.games = games /\ m.players = players
                /\ s.status = "error" /\ s.games = games /\ s.players = players

(***************************************************************************)
(* C16: in every committed state a player's score is the number of stored  *)
(* matches whose board holds a winning line of that player: no committed   *)
(* state shows a winning board without the winner's score, or a score      *)
(* without its winning board.                                              *)
(***************************************************************************)
C16_ScoreWithBoard ==
    \A i \in 1 .. Len(players) :
        players[i].score =
            Cardinality({g \in StoredGames :
                \/ games[g].player_1 = i /\ HasLine(games[g].board, 1)
                \/ games[g].player_2 = i /\ HasLine(games[g].board, 2)})

(***************************************************************************)
(* C17: highscore_list(max_entries) answers with min(max_entries, number   *)
(* of stored players) entries, each the name and score of a stored player, *)
(* no player twice, in order of non-increasing score, no omitted player    *)
(* having a higher score than a returned one; it changes no stored row.    *)
(***************************************************************************)
C17_Highscore ==
    \A max_entries \in Entries : \A r \in highscore_list_result(max_entries) :
        LET n == Len(r.scores)
        IN  /\ n = IF max_entries < Len(players) THEN max_entries ELSE Len(players)
            /\ \E f \in [1 .. n -> 1 .. Len(players)] :
                  /\ \A k, l \in 1 .. n : k # l => f[k] # f[l]
                  /\ \A k \in 1 .. n :
                        /\ r.scores[k].name = players[f[k]].name
                        /\ r.scores[k].score = players[f[k]].score
                  /\ \A j \in (1 .. Len(players)) \ {f[k] : k \in 1 .. n} :
                        \A k \in 1 .. n : players[j].score <= r.scores[k].score
            /\ \A k \in 1 .. (n - 1) : r.scores[k].score >= r.scores[k + 1].score
            /\ r.players = players
            /\ r.games = games

\* the player stored second has won: a list of one entry names that player
C17_Witness ==
    /\ Len(players) = 2
    /\ players[1].score = 0
    /\ players[2].score = 1
    /\ \A r \in highscore_list_result(1) : r.scores = <<[name |-> players[2].name, score |-> 1]>>
    /\ \A r \in highscore_list_result(MaxEntries) : Len(r.scores) = 2

(***************************************************************************)
(* C18: in every step every stored player stays stored with the same name  *)
(* and hash, every stored match stays stored with the same two players,    *)
(* and a score stays or rises by exactly 1, and rises only in a step of    *)
(* make_turn.                                                              *)
(***************************************************************************)
C18_Lifecycle ==
    [][/\ Len(players') >= Len(players)
       /\ Len(games') >= Len(games)
       /\ \A i \in 1 .. Len(players) :
             /\ players'[i].name = players[i].name
             /\ players'[i].hash = players[i].hash
             /\ players'[i].score \in {players[i].score, players[i].score + 1}
             /\ players'[i].score # players[i].score =>
                   \E n \in Names, h \in Hashes, pos \in Positions, g \in StoredGames :
                       make_turn(n, h, pos, g)
       /\ \A g \in StoredGames :
             /\ games'[g].player_1 = games[g].player_1
             /\ games'[g].player_2 = games[g].player_2]_vars

\* a match has been won: its winner's score has risen, the rows are all there
C18_Witness ==
    \E g \in StoredGames, i \in 1 .. Len(players) :
        /\ Len(players) = 2
        /\ i = games[g].player_2
        /\ HasLine(games[g].board, 2)
        /\ players[i].score = 1

(***************************************************************************)
(* C19: in every reachable state every stored match has two distinct       *)
(* players, both of them stored players, and its turn is one of the two.   *)
(***************************************************************************)
C19_MatchWellFormed ==
    \A g \in StoredGames :
        /\ games[g].player_1 # games[g].player_2
        /\ games[g].player_1 \in 1 .. Len(players)
        /\ games[g].player_2 \in 1 .. Len(players)
        /\ games[g].turn \in {games[g].player_1, games[g].player_2}

\* two matches of different pairs of players, one waiting for its player two
C19_Witness ==
    /\ Len(games) = 2
    /\ {games[1].player_1, games[1].player_2} # {games[2].player_1, games[2].player_2}
    /\ games[1].turn = games[1].player_2
    /\ games[2].turn = games[2].player_1

(***************************************************************************)
(* C20: game_state changes no stored row, whether it succeeds or fails;    *)
(* called by an authenticated participant of a stored match it succeeds,   *)
(* and a successful call answers the name of the player whose id is the    *)
(* match's stored turn and the stored board integer as it is.              *)
(***************************************************************************)
C20_GameStateReadOnly ==
    \A n \in Names, h \in Hashes, g \in GameIds :
        LET s == game_state_result(n, h, g)
        IN  /\ s.players = players
            /\ s.games = games
            /\ (g \in StoredGames /\ Participant(n, h, g)) => s.status = "ok"
            /\ s.status = "ok" =>
                  /\ g \in StoredGames
                  /\ \E i \in 1 .. Len(players) :
                        i = games[g].turn /\ players[i].name = s.turn
                  /\ s.board = games[g].board

\* both players have marked cells, player two is on turn and asks for the state
C20_Witness ==
    \E n \in Names, h \in Hashes, g \in StoredGames :
        /\ Participant(n, h, g)
        /\ games[g].turn = games[g].player_2
        /\ games[g].board >= 512
        /\ LET s == game_state_result(n, h, g)
           IN  s.status = "ok" /\ s.turn = n /\ s.board = games[g].board

(***************************************************************************)
(* C21: for every 18-bit integer m, Board(m) is constructed if and only if *)
(* no cell is marked in both 9-bit planes of m, that is                    *)
(* (m & 0x1FF) & ((m >> 9) & 0x1FF) == 0; otherwise it fails with an error.*)
(***************************************************************************)
C21_BoardConstruct ==
    LET r == Board_init(board_b)
    IN  /\ r.ok <=> (\A c \in 0 .. 8 : ~(Bit(board_b, c) = 1 /\ Bit(board_b, c + 9) = 1))
        /\ r.ok => r.b = board_b
        /\ ~r.ok => r.why # ""

\* cell 8 marked in both planes and nothing else: the constructor has refused
C21_Witness ==
    /\ board_b = 2 ^ 8 + 2 ^ 17
    /\ ~Board_init(board_b).ok

(***************************************************************************)
(* C22: for every valid board and each player p, is_player_win(p) is true  *)
(* if and only if p's cells contain one of the eight lines (rows 0-1-2,    *)
(* 3-4-5, 6-7-8, columns 0-3-6, 1-4-7, 2-5-8, diagonals 0-4-8, 2-4-6),     *)
(* whatever the other player's cells are; is_win() is true if and only if  *)
(* that holds for player 1 or for player 2.                                *)
(***************************************************************************)
C22_PlayerWin ==
    Board_init(board_b).ok =>
        /\ \A p \in PlayerNums : is_player_win(board_b, p) <=> HasLine(board_b, p)
        /\ is_player_win(board_b, 1) <=> is_player_win(board_b % 512, 1)
        /\ is_player_win(board_b, 2) <=> is_player_win(board_b - (board_b % 512), 2)
        /\ is_win(board_b) <=> (HasLine(board_b, 1) \/ HasLine(board_b, 2))

\* player two holds the diagonal 2 4 6, player one holds 0 1 3 and no line
C22_Witness ==
    /\ board_b = (4 + 16 + 64) * 512 + (1 + 2 + 8)
    /\ Board_init(board_b).ok
    /\ is_player_win(board_b, 2)
    /\ ~is_player_win(board_b, 1)
    /\ is_win(board_b)

(***************************************************************************)
(* C23: on every valid board, set_field(pos, player) with pos in 0..8: if  *)
(* the cell is marked by either player it fails and the board value stays; *)
(* otherwise the new value is the old one with exactly one bit more, bit   *)
(* pos of the acting player's plane, which was 0, and the other player's   *)
(* plane is as it was.                                                     *)
(***************************************************************************)
C23_SetField ==
    Board_init(board_b).ok =>
        \A pos \in GoodPos, p \in PlayerNums :
            LET r   == set_field(board_b, pos, p)
                bit == pos + 9 * (p - 1)
            IN  IF Bit(board_b, pos) = 1 \/ Bit(board_b, pos + 9) = 1
                THEN ~r.ok /\ r.b = board_b
                ELSE /\ r.ok
                     /\ Bit(board_b, bit) = 0
                     /\ r.b = board_b + 2 ^ bit
                     /\ \A i \in 0 .. (BoardBits - 1) :
                           i # bit => Bit(r.b, i) = Bit(board_b, i)

\* cells 0 and 1 are marked: marking 1 again fails, player two marks the free cell 2
C23_Witness ==
    /\ board_b = 1 + 2 * 512
    /\ ~set_field(board_b, 1, 1).ok
    /\ ~set_field(board_b, 0, 2).ok
    /\ set_field(board_b, 2, 2).b = board_b + 2 ^ 11

(***************************************************************************)
(* C24: on every valid board free_fields() is the sequence of exactly the  *)
(* positions in 0..8 marked by neither player, ascending and so without    *)
(* duplicates; its length is 9 minus the popcount of (mask1 | mask2).      *)
(***************************************************************************)
C24_FreeFields ==
    Board_init(board_b).ok =>
        LET f == free_fields(board_b)
        IN  /\ {f[i] : i \in 1 .. Len(f)} =
                  {c \in 0 .. 8 : Bit(board_b, c) = 0 /\ Bit(board_b, c + 9) = 0}
            /\ \A i, j \in 1 .. Len(f) : i < j => f[i] < f[j]
            /\ Len(f) = 9 - PopCount(BitOr(board_b % 512, (board_b \div 512) % 512))

\* the board 0b100_100_010_001_001_100: the cells 0, 4 and 7 are free
C24_Witness ==
    /\ board_b = 148556
    /\ free_fields(board_b) = <<0, 4, 7>>

(***************************************************************************)
(* C25: for every board value m, is_full() is true if and only if exactly  *)
(* 9 of the 18 bits of m are set; on every valid board that is the case    *)
(* exactly when free_fields() is empty; and is_finished() is true exactly  *)
(* when the board is full or one of the players holds a line.              *)
(***************************************************************************)
C25_FullAndFinished ==
    /\ is_full(board_b) <=> PopCount(board_b % (2 ^ BoardBits)) = 9
    /\ Board_init(board_b).ok => (is_full(board_b) <=> free_fields(board_b) = <<>>)
    /\ is_finished(board_b) <=>
          \/ PopCount(board_b % (2 ^ BoardBits)) = 9
          \/ HasLine(board_b, 1)
          \/ HasLine(board_b, 2)

\* a full board with no line: player one on 0 1 5 6 8, player two on 2 3 4 7
C25_Witness ==
    /\ board_b = (4 + 8 + 16 + 128) * 512 + (1 + 2 + 32 + 64 + 256)
    /\ Board_init(board_b).ok
    /\ is_full(board_b)
    /\ ~is_win(board_b)
    /\ is_finished(board_b)
    /\ free_fields(board_b) = <<>>

(***************************************************************************)
(* C26: with one request at a time and positions in 0..8, every stored     *)
(* match has as many marks of player one as of player two, or one more;    *)
(* the stored turn is player one exactly when they are as many and player  *)
(* two exactly when player one has one more.                               *)
(***************************************************************************)
C26_Alternation ==
    \A g \in StoredGames :
        LET n1 == Cardinality(CellsOf(games[g].board, 1))
            n2 == Cardinality(CellsOf(games[g].board, 2))
        IN  /\ n1 - n2 \in {0, 1}
            /\ games[g].turn = games[g].player_1 <=> n1 = n2
            /\ games[g].turn = games[g].player_2 <=> n1 = n2 + 1

\* five moves made: player one has three marks, player two has two and is on turn
C26_Witness ==
    \E g \in StoredGames :
        /\ Cardinality(CellsOf(games[g].board, 1)) = 3
        /\ Cardinality(CellsOf(games[g].board, 2)) = 2
        /\ games[g].turn = games[g].player_2

(***************************************************************************)
(* C27: with one request at a time, no stored board holds a winning        *)
(* pattern of both players: is_player_win(1) and is_player_win(2) are      *)
(* never both true, so a match has at most one winner.                     *)
(***************************************************************************)
C27_OneWinner ==
    \A g \in StoredGames :
        /\ ~(HasLine(games[g].board, 1) /\ HasLine(games[g].board, 2))
        /\ ~(is_player_win(games[g].board, 1) /\ is_player_win(games[g].board, 2))

\* a won match in which the loser holds two cells of a line whose third cell is free
C27_Witness ==
    \E g \in StoredGames, p \in PlayerNums, line \in WinLines :
        /\ HasLine(games[g].board, p)
        /\ Cardinality(line \cap CellsOf(games[g].board, 3 - p)) = 2
        /\ \E c \in line : CellFree(games[g].board, c)

(***************************************************************************)
(* C28: with one request at a time, in every reachable state each player's *)
(* score is the number of stored matches whose board holds a winning       *)
(* pattern in that player's own mask; so each match adds at most 1 to the  *)
(* scores and their sum is at most the number of finished matches.         *)
(***************************************************************************)
C28_ScoreIsWins ==
    LET WonBy(i) == {g \in StoredGames :
                        \/ games[g].player_1 = i /\ is_player_win(games[g].board, 1)
                        \/ games[g].player_2 = i /\ is_player_win(games[g].board, 2)}
        Ids      == 1 .. Len(players)
    IN  /\ \A i \in Ids : players[i].score = Cardinality(WonBy(i))
        /\ \A i, j \in Ids : i # j => WonBy(i) \cap WonBy(j) = {}
        /\ \A i \in Ids : \A g \in WonBy(i) : is_finished(games[g].board)

(***************************************************************************)
(* C29, its count of moves: every accepted move on a match (a step that    *)
(* changes the match's row) adds exactly one to the popcount of its board, *)
(* so the number of accepted moves is the popcount, and never more than 9. *)
(***************************************************************************)
C29_MovesCounted ==
    [][\A g \in StoredGames :
          games'[g] # games[g] =>
              /\ PopCount(games'[g].board) = PopCount(games[g].board) + 1
              /\ PopCount(games'[g].board) <= 9]_vars

(***************************************************************************)
(* C30: a make_turn on match g, accepted or rejected, leaves the row of    *)
(* every other stored match as it is, also when the same two players play  *)
(* both; create_game and register_player leave every stored match's row    *)
(* and every stored player's row (its score) as they are.                  *)
(***************************************************************************)
C30_Isolation ==
    /\ \A n \in LobbyNames, h \in LobbyHashes, pos \in Positions, g \in LobbyGameIds :
          LET r == make_turn_result(n, h, pos, g)
          IN  /\ Len(r.games) = Len(games)
              /\ \A g2 \in StoredGames \ {g} : r.games[g2] = games[g2]
    /\ \A n1 \in LobbyNames, h \in LobbyHashes, n2 \in LobbyNames :
          LET r == create_game_result(n1, h, n2)
          IN  /\ \A g \in StoredGames : r.games[g] = games[g]
              /\ r.players = players
    /\ \A n \in LobbyNames, h \in LobbyHashes :
          LET r == register_player_result(n, h)
          IN  /\ r.games = games
              /\ \A i \in 1 .. Len(players) : r.players[i] = players[i]

\* two matches of the same two players with different boards, and a move is accepted
C30_Witness ==
    \E n \in LobbyNames, h \in LobbyHashes, pos \in LobbyPos :
        /\ Len(games) = 2
        /\ {games[1].player_1, games[1].player_2} = {games[2].player_1, games[2].player_2}
        /\ games[1].board # games[2].board
        /\ make_turn_result(n, h, pos, 2).status = "ok"

====
